---------------------------- MODULE Spec2Model ----------------------------
(***************************************************************************)
(* A model of frontend/src/create.tsx of brickoven: the step-text          *)
(* templating of StepView.renderText and the rendering of the brick /      *)
(* connection graph by BrickView, BrickConnectionView and RecipeView.      *)
(*                                                                         *)
(* Strings are sequences of one-character strings.  Offsets are 0-based,   *)
(* as in JavaScript; Char(s, i) reads offset i of s.                       *)
(***************************************************************************)
EXTENDS Integers, Sequences, FiniteSets, TLC

VARIABLES
    step,       \* the props of the StepView under test: [text, stepExpressions]
    rendered,   \* what StepView.renderText did with it: None until it has run
    nodes,      \* the bricks and connections built so far; a reference to
                \* one is its position in this list
    pushed,     \* how many inputs callers pushed onto arrays given to connect
    phase,      \* "author", then "render", then "done" or "failed"
    tail,       \* recipe.tail of the RecipeView being rendered, null before
    stack,      \* the components being rendered, the innermost last
    out,        \* the text leaves rendered so far, in document order
    failure     \* the message of the error that ended the rendering

textVars == <<step, rendered>>
graphVars == <<nodes, pushed, phase, tail, stack, out, failure>>
vars == <<step, rendered, nodes, pushed, phase, tail, stack, out, failure>>

None == [status |-> "none"]

-----------------------------------------------------------------------------
(* Bounds of the model.                                                    *)

\* The longest step text drawn.
MaxLen == 5

\* The characters step texts are drawn from: the dollar sign, the escaping
\* backslash, two digits and a letter.
Chars == {"$", "\\", "0", "1", "a"}

\* The lengths of stepExpressions drawn: none, one, two, and enough for the
\* two-digit indices 10 and 11.
ExprCounts == {0, 1, 2, 12}

\* The most bricks and connections built.
MaxNodes == 4

\* The most inputs pushed, over all connections, after their construction.
MaxPushed == 1

\* The deepest nesting of components rendered: a cyclic graph nests without
\* end, and the model follows it this far.
MaxDepth == 6

-----------------------------------------------------------------------------
(* JavaScript strings.                                                     *)

Digits == <<"0", "1", "2", "3", "4", "5", "6", "7", "8", "9">>

IsDigit(c) == \E d \in 1..10 : Digits[d] = c

DigitVal(c) == (CHOOSE d \in 1..10 : Digits[d] = c) - 1

Char(s, i) == s[i + 1]

\* s.substring(from, to) for 0 <= from <= to <= s.length
Substring(s, from, to) == SubSeq(s, from + 1, to)

\* s.substring(from + 1): one character too far.
SubstringFromNext(s, from) == SubSeq(s, from + 2, Len(s))

\* s.substring(from)
SubstringFrom(s, from) == SubSeq(s, from + 1, Len(s))

\* parseInt(s) of a non-empty string of decimal digits
RECURSIVE parseInt(_)
parseInt(s) ==
    IF Len(s) = 0 THEN 0
    ELSE 10 * parseInt(SubSeq(s, 1, Len(s) - 1)) + DigitVal(s[Len(s)])

\* (n).toString() of a non-negative integer
RECURSIVE toString(_)
toString(n) ==
    IF n < 10 THEN <<Digits[n + 1]>>
    ELSE toString(n \div 10) \o <<Digits[(n % 10) + 1]>>

\* parts.join('')
RECURSIVE join(_)
join(parts) ==
    IF parts = <<>> THEN <<>> ELSE Head(parts) \o join(Tail(parts))

-----------------------------------------------------------------------------
(* Expressions: ingredients and amounts.                                   *)

blank == "blank"

UnitLabel(unit) ==
    CASE unit = "mL" -> <<"m", "L">>
      [] unit = "g" -> <<"g">>
      [] unit = "tsp" -> <<"t", "s", "p">>
      [] unit = "oz" -> <<"o", "z">>
      [] unit = "inch" -> <<"i", "n", "c", "h">>
      [] OTHER -> <<>>

amount(value, unit) == [kind |-> "amount", value |-> value, unit |-> unit]

ingr(name) == [kind |-> "ingr", name |-> name]

toExprContent(e) ==
    IF e.kind = "ingr" THEN e.name
    ELSE IF e.unit = blank THEN toString(e.value)
    ELSE toString(e.value) \o <<" ">> \o UnitLabel(e.unit)

\* The expressions steps refer to: stepExpressions is a prefix of this list.
Pantry ==
    << ingr(<<"b", "u", "t", "t", "e", "r">>),
       ingr(<<"f", "l", "o", "u", "r">>),
       amount(190, "g"),
       ingr(<<"s", "a", "l", "t">>),
       amount(2, blank),
       amount(3, "inch"),
       ingr(<<"e", "g", "g", "s">>),
       amount(73, "g"),
       amount(1, "oz"),
       ingr(<<"v", "a", "n", "i", "l", "l", "a">>),
       amount(250, "mL"),
       amount(2, "tsp") >>

-----------------------------------------------------------------------------
(* StepView.renderText                                                     *)

\* The pattern without its lookbehind.
LookbehindDropped(text, i) == TRUE

\* The lookbehind (?<!\\) at offset i: the character before is no backslash.
NotEscaped(text, i) == i = 0 \/ Char(text, i - 1) # "\\"

\* \d+? at offset i, with nothing after it in the pattern: the lazy quantifier
\* takes the fewest digits that let the match succeed, which is one.  The
\* number of characters taken, 0 when there is no digit at i.
LazyDigits(text, i) ==
    IF i < Len(text) /\ IsDigit(Char(text, i)) THEN 1 ELSE 0

\* The length of the match of /(?<!\\)\$\d+?/ starting at offset i, 0 for none.
MatchAt(text, i) ==
    IF /\ i < Len(text)
       /\ Char(text, i) = "$"
       /\ NotEscaped(text, i)
       /\ LazyDigits(text, i + 1) > 0
    THEN 1 + LazyDigits(text, i + 1)
    ELSE 0

\* text.matchAll(/(?<!\\)\$\d+?/g) from offset i on: the matches in order of
\* appearance, each with its index and its text, searched on after each match.
RECURSIVE matchAllFrom(_, _)
matchAllFrom(text, i) ==
    IF i >= Len(text) THEN <<>>
    ELSE IF MatchAt(text, i) > 0
    THEN <<[index |-> i, text |-> Substring(text, i, i + MatchAt(text, i))]>>
         \o matchAllFrom(text, i + MatchAt(text, i))
    ELSE matchAllFrom(text, i + 1)

matchAll(text) == matchAllFrom(text, 0)

Returned(value) == [status |-> "returned", value |-> value]

Thrown(message) == [status |-> "thrown", message |-> message]

MissingIndex == "missing index in regexp match"

OutOfBounds == "attempted to reference out-of-bounds ingredient"

\* if (!index): 0 is falsy, as undefined is.
IndexMissing(index) == index = 0

\* The body of the for loop over the matches, from match k on.
RECURSIVE renderLoop(_, _, _, _, _)
renderLoop(text, stepExpressions, matches, k, acc) ==
    IF k > Len(matches)
    THEN Returned(join(Append(acc.parts, SubstringFrom(text, acc.cursorPos))))
    ELSE LET index == matches[k].index
             matchText == matches[k].text
             expressionIndex == parseInt(SubstringFrom(matchText, 1))
         IN  IF IndexMissing(index) THEN Thrown(MissingIndex)
             ELSE IF expressionIndex < 0
                     \/ expressionIndex >= Len(stepExpressions)
             THEN Thrown(OutOfBounds)
             ELSE renderLoop(text, stepExpressions, matches, k + 1,
                    [parts |-> acc.parts
                                 \o <<Substring(text, acc.cursorPos, index),
                                      toExprContent(stepExpressions[expressionIndex + 1])>>,
                     cursorPos |-> index + Len(matchText)])

renderText(s) ==
    renderLoop(s.text, s.stepExpressions, matchAll(s.text), 1,
               [parts |-> <<>>, cursorPos |-> 0])

-----------------------------------------------------------------------------
(* The StepView under test.                                                *)

Texts == UNION {[1..n -> Chars] : n \in 0..MaxLen}

Steps ==
    {[text |-> t, stepExpressions |-> SubSeq(Pantry, 1, n)] :
        t \in Texts, n \in ExprCounts}

\* No brick, no connection, nothing rendered.
GraphIdle ==
    /\ nodes = <<>>
    /\ pushed = 0
    /\ phase = "author"
    /\ tail = 0
    /\ stack = <<>>
    /\ out = <<>>
    /\ failure = ""

TextInit ==
    /\ step \in Steps
    /\ rendered = None
    /\ GraphIdle

\* StepView.render: the list item holds what renderText returns.
StepViewRender ==
    /\ rendered = None
    /\ rendered' = renderText(step)
    /\ UNCHANGED step
    /\ UNCHANGED graphVars

TextNext == StepViewRender

TextSpec == TextInit /\ [][TextNext]_vars


-----------------------------------------------------------------------------
(* Bricks, connections and the constructors brick, connect and step.       *)
(* Only the fields the views read are kept: ids, titles, outputs and tools *)
(* are not.                                                                *)

null == 0

NewStep(text, stepExpressions) ==
    [text |-> text, stepExpressions |-> stepExpressions]

brick(parent, steps) == [type |-> "brick", parent |-> parent, steps |-> steps]

connect(inputs, connectionMethod) ==
    [type |-> "connection", inputs |-> inputs,
     connectionMethod |-> connectionMethod]

\* The step lists bricks are built with: two steps that render, one step
\* that refers to an expression it does not have.
StepLists ==
    { << NewStep(<<"a", "$", "0">>, SubSeq(Pantry, 1, 1)),
         NewStep(<<"a", "$", "1", "\\", "$", "0">>, SubSeq(Pantry, 1, 2)) >>,
      << NewStep(<<"a", "$", "1">>, SubSeq(Pantry, 1, 1)) >> }

Methods == {<<"m", "i", "x">>}

Refs == 1..Len(nodes)

\* What a brick or a connection refers to: its parent, its inputs.
Links(n) ==
    IF nodes[n].type = "brick"
    THEN IF nodes[n].parent = null THEN {} ELSE {nodes[n].parent}
    ELSE {nodes[n].inputs[i] : i \in DOMAIN nodes[n].inputs}

\* What is reached from the set seen of nodes through parent and inputs.
RECURSIVE ReachedFrom(_)
ReachedFrom(seen) ==
    LET more == seen \cup UNION {Links(n) : n \in seen}
    IN  IF more = seen THEN seen ELSE ReachedFrom(more)

\* The recipe is complete: the brick built last reaches all that was built.
Complete ==
    /\ nodes # <<>>
    /\ nodes[Len(nodes)].type = "brick"
    /\ ReachedFrom({Len(nodes)}) = Refs

\* The arrays of the references in refs, each at most once, in any order:
\* the empty array, the arrays of one input, of two, ...
RECURSIVE InputArrays(_)
InputArrays(refs) ==
    LET Starting(r) == {<<r>> \o a : a \in InputArrays(refs \ {r})}
    IN  {<<>>} \cup UNION {Starting(r) : r \in refs}

\* const b = brick(parent, steps): parent is null or something built before.
Brick ==
    /\ phase = "author"
    /\ pushed = 0
    /\ Len(nodes) < MaxNodes
    /\ \E parent \in {null} \cup Refs, steps \in StepLists :
           nodes' = Append(nodes, brick(parent, steps))
    /\ UNCHANGED <<pushed, phase, tail, stack, out, failure>>
    /\ UNCHANGED textVars

\* const c = connect(inputs, connectionMethod): inputs is any array of what
\* was built before, the empty one too.
Connect ==
    /\ phase = "author"
    /\ pushed = 0
    /\ Len(nodes) < MaxNodes
    /\ \E inputs \in InputArrays(Refs), connectionMethod \in Methods :
           nodes' = Append(nodes, connect(inputs, connectionMethod))
    /\ UNCHANGED <<pushed, phase, tail, stack, out, failure>>
    /\ UNCHANGED textVars

\* connect keeps the array it is given, not a copy: a caller that pushes onto
\* that array afterwards changes the connection's inputs.  The input pushed
\* is one built after the connection and referring back to it, which connect
\* could not have been given: this is how a graph comes to hold a cycle.
\* (Pushes are taken once the recipe is complete; they commute with the
\* constructions.)
PushInput ==
    /\ phase = "author"
    /\ pushed < MaxPushed
    /\ Complete
    /\ \E c \in Refs, input \in Refs :
           /\ nodes[c].type = "connection"
           /\ input > c
           /\ c \in ReachedFrom({input})
           /\ nodes' = [nodes EXCEPT ![c].inputs = Append(@, input)]
    /\ pushed' = pushed + 1
    /\ UNCHANGED <<phase, tail, stack, out, failure>>
    /\ UNCHANGED textVars

-----------------------------------------------------------------------------
(* The views.  stack holds the components whose children are being         *)
(* rendered: done counts the children already rendered, from is where in   *)
(* the document the component starts.  out is the rendered text in         *)
(* document order, each leaf with the brick or connection whose view put   *)
(* it there.                                                               *)

\* <BrickOrConnection input={input}/>, and the same choice in
\* BrickConnectionView.render: the view is picked by the type tag.
BrickOrConnection(input) ==
    [view |-> IF nodes[input].type = "connection"
              THEN "BrickConnectionView" ELSE "BrickView",
     node |-> input,
     done |-> 0,
     from |-> Len(out)]

Top == stack[Len(stack)]

Pop == SubSeq(stack, 1, Len(stack) - 1)

Leaf(node, text) == [node |-> node, text |-> text]

\* What remains to be done once the top component is rendered.
Return ==
    /\ stack' = Pop
    /\ phase' = IF Pop = <<>> THEN "done" ELSE "render"

\* <RecipeView recipe={recipe}/>: <BrickView brick={tail}/>.  The tail is the
\* brick built last, as in the recipe of the source, and what was built is
\* part of the recipe: what the tail does not reach is never rendered.
RecipeViewRender ==
    /\ phase = "author"
    /\ Complete
    /\ tail' = Len(nodes)
    /\ phase' = "render"
    /\ stack' = <<[view |-> "BrickView", node |-> Len(nodes), done |-> 0,
                    from |-> 0]>>
    /\ UNCHANGED <<nodes, pushed, out, failure>>
    /\ UNCHANGED textVars

\* The brick itself rendered where its parent belongs:
\* brick.parent && <BrickView brick={brick}/>
BrickViewParentSelf ==
    /\ phase = "render"
    /\ Top.view = "BrickView"
    /\ Top.done = 0
    /\ nodes[Top.node].parent # null
    /\ Len(stack) < MaxDepth
    /\ stack' = Append([stack EXCEPT ![Len(stack)].done = 1],
                       BrickOrConnection(Top.node))
    /\ UNCHANGED <<nodes, pushed, phase, tail, out, failure>>
    /\ UNCHANGED textVars

\* BrickView.render, brick.parent && <BrickOrConnection input={brick.parent}/>
BrickViewParent ==
    /\ phase = "render"
    /\ Top.view = "BrickView"
    /\ Top.done = 0
    /\ nodes[Top.node].parent # null
    /\ Len(stack) < MaxDepth
    /\ stack' = Append([stack EXCEPT ![Len(stack)].done = 1],
                       BrickOrConnection(nodes[Top.node].parent))
    /\ UNCHANGED <<nodes, pushed, phase, tail, out, failure>>
    /\ UNCHANGED textVars

\* <StepView step={step}/> for the steps bricks are built with: the list
\* item holds what renderText returns, and an error it throws is thrown on.
StepView ==
    [s \in UNION {{l[k] : k \in DOMAIN l} : l \in StepLists} |-> renderText(s)]

\* The texts of the steps, the last step first.
RECURSIVE StepViewsReversed(_, _)
StepViewsReversed(node, steps) ==
    IF steps = <<>> THEN Returned(<<>>)
    ELSE LET first == StepView[Head(steps)]
             rest == StepViewsReversed(node, Tail(steps))
         IN  IF first.status = "thrown" THEN first
             ELSE IF rest.status = "thrown" THEN rest
             ELSE Returned(Append(rest.value, Leaf(node, first.value)))

\* The texts of the steps, in array order, or the first error thrown.
RECURSIVE StepViews(_, _)
StepViews(node, steps) ==
    IF steps = <<>> THEN Returned(<<>>)
    ELSE LET first == StepView[Head(steps)]
             rest == StepViews(node, Tail(steps))
         IN  IF first.status = "thrown" THEN first
             ELSE IF rest.status = "thrown" THEN rest
             ELSE Returned(<<Leaf(node, first.value)>> \o rest.value)

\* BrickView.render, brick.steps.map(step => <StepView step={step}/>), after
\* the parent, if there is one.  An error thrown by a StepView ends the
\* rendering of the whole tree: React shows nothing of it.
BrickViewSteps ==
    /\ phase = "render"
    /\ Top.view = "BrickView"
    /\ Top.done = 1 \/ nodes[Top.node].parent = null
    /\ LET items == StepViews(Top.node, nodes[Top.node].steps)
       IN  IF items.status = "thrown"
           THEN /\ phase' = "failed"
                /\ failure' = items.message
                /\ stack' = <<>>
                /\ out' = <<>>
           ELSE /\ out' = out \o items.value
                /\ Return
                /\ UNCHANGED failure
    /\ UNCHANGED <<nodes, pushed, tail>>
    /\ UNCHANGED textVars

\* The inputs taken from the end of the array.
NextInputFromEnd(inputs, done) == inputs[Len(inputs) - done]

\* inputs.map(input => ...): the inputs in array order, the one after the
\* done first ones next.
NextInput(inputs, done) == inputs[done + 1]

\* BrickConnectionView.render, inputs.map(...): the next input.
BrickConnectionViewInput ==
    /\ phase = "render"
    /\ Top.view = "BrickConnectionView"
    /\ Top.done < Len(nodes[Top.node].inputs)
    /\ Len(stack) < MaxDepth
    /\ stack' = Append([stack EXCEPT ![Len(stack)].done = @ + 1],
                       BrickOrConnection(NextInput(nodes[Top.node].inputs, Top.done)))
    /\ UNCHANGED <<nodes, pushed, phase, tail, out, failure>>
    /\ UNCHANGED textVars

\* The label left out when there is no input: inputs.length && connectionMethod.
BrickConnectionViewMethodUnlessEmpty ==
    /\ phase = "render"
    /\ Top.view = "BrickConnectionView"
    /\ Top.done = Len(nodes[Top.node].inputs)
    /\ out' = IF nodes[Top.node].inputs = <<>> THEN out
              ELSE Append(out, Leaf(Top.node, nodes[Top.node].connectionMethod))
    /\ Return
    /\ UNCHANGED <<nodes, pushed, tail, failure>>
    /\ UNCHANGED textVars

\* BrickConnectionView.render, {connectionMethod} after the inputs.
BrickConnectionViewMethod ==
    /\ phase = "render"
    /\ Top.view = "BrickConnectionView"
    /\ Top.done = Len(nodes[Top.node].inputs)
    /\ out' = Append(out, Leaf(Top.node, nodes[Top.node].connectionMethod))
    /\ Return
    /\ UNCHANGED <<nodes, pushed, tail, failure>>
    /\ UNCHANGED textVars

GraphInit ==
    /\ step = NewStep(<<>>, <<>>)
    /\ rendered = None
    /\ GraphIdle

Author == Brick \/ Connect \/ PushInput

Render ==
    \/ RecipeViewRender
    \/ BrickViewParent
    \/ BrickViewSteps
    \/ BrickConnectionViewInput
    \/ BrickConnectionViewMethod

GraphNext == Author \/ Render

GraphSpec == GraphInit /\ [][GraphNext]_vars

\* Rendering is one synchronous call: once started it runs on.
FairGraphSpec == GraphSpec /\ WF_vars(Render)

-----------------------------------------------------------------------------
(* The placeholder grammar of the specification, read off a text character *)
(* by character: a dollar sign, not preceded by a backslash, followed by   *)
(* one or more digits.                                                     *)

\* The number of consecutive digits of text from offset i on.
RECURSIVE DigitRun(_, _)
DigitRun(text, i) ==
    IF i < Len(text) /\ IsDigit(Char(text, i)) THEN 1 + DigitRun(text, i + 1)
    ELSE 0

\* The offsets of the dollar signs that start an unescaped placeholder.
Placeholders(text) ==
    {i \in 0..(Len(text) - 1) :
        /\ Char(text, i) = "$"
        /\ (i = 0 \/ Char(text, i - 1) # "\\")
        /\ DigitRun(text, i + 1) >= 1}

\* The offsets of the dollar signs of the escaped tokens \$<digits>.
EscapedTokens(text) ==
    {i \in 1..(Len(text) - 1) :
        /\ Char(text, i) = "$"
        /\ Char(text, i - 1) = "\\"
        /\ DigitRun(text, i + 1) >= 1}

\* The index the placeholder at offset i carries: all of its digits.
IndexOf(text, i) == parseInt(Substring(text, i + 1, i + 1 + DigitRun(text, i + 1)))

\* The digits a token at offset i consists of: all of them, or the first.
TokenDigits(text, i, whole) == IF whole THEN DigitRun(text, i + 1) ELSE 1

\* The text from offset i on with every unescaped placeholder replaced by the
\* content of the expression it names and every other character kept.
RECURSIVE Expand(_, _, _, _)
Expand(text, exprs, i, whole) ==
    IF i >= Len(text) THEN <<>>
    ELSE IF i \in Placeholders(text)
    THEN LET n == TokenDigits(text, i, whole)
             e == parseInt(Substring(text, i + 1, i + 1 + n))
         IN  toExprContent(exprs[e + 1]) \o Expand(text, exprs, i + 1 + n, whole)
    ELSE <<Char(text, i)>> \o Expand(text, exprs, i + 1, whole)

HasRun == rendered # None

SingleDigit(text) == \A i \in Placeholders(text) : DigitRun(text, i + 1) = 1

NoneAtStart(text) == 0 \notin Placeholders(text)

InBounds(s) ==
    \A i \in Placeholders(s.text) : IndexOf(s.text, i) < Len(s.stepExpressions)

NoLeadingZero(text) ==
    \A i \in Placeholders(text) :
        DigitRun(text, i + 1) = 1 \/ Char(text, i + 1) # "0"

-----------------------------------------------------------------------------
(* Claims about StepView.renderText.                                       *)

\* C1: for every step text whose unescaped placeholders $i (one digit each;
\* longer tokens are C4's) all have 0 <= i < length(stepExpressions),
\* wherever they stand in the text, the first character included,
\* renderText returns the text with each placeholder replaced by the content
\* of stepExpressions[i] and every other character kept, once, in order.
C1_PlaceholderReplaced ==
    (HasRun /\ SingleDigit(step.text) /\ InBounds(step))
        => rendered = Returned(Expand(step.text, step.stepExpressions, 0, TRUE))

\* C2: renderText is total over well-formed steps (every placeholder index
\* < length(stepExpressions)), and 'missing index in regexp match' is thrown
\* only for a token that carries no index, never for one that has digits.
C2_TotalOnWellFormed ==
    HasRun =>
        /\ InBounds(step) => rendered.status = "returned"
        /\ rendered = Thrown(MissingIndex)
             => \E k \in 1..Len(matchAll(step.text)) :
                    SubstringFrom(matchAll(step.text)[k].text, 1) = <<>>

\* C3: a step whose text holds an unescaped placeholder with an index
\* >= length(stepExpressions) makes renderText throw the out-of-bounds
\* error; no string is returned.  (Stated for texts whose first character
\* starts no placeholder, where the other error of C2 comes first, and for
\* indices written without a leading zero.)
C3_OutOfBoundsThrows ==
    (/\ HasRun
     /\ NoneAtStart(step.text)
     /\ NoLeadingZero(step.text)
     /\ \E i \in Placeholders(step.text) :
            IndexOf(step.text, i) >= Len(step.stepExpressions))
        => rendered = Thrown(OutOfBounds)

\* C4: a placeholder is the dollar sign with all the digits that follow it,
\* read as one index: with every such index in bounds, renderText returns
\* the text with each whole token replaced by the content of the expression
\* of that index, and no digit of a token left over as literal text.
\* (Stated for texts whose first character starts no placeholder, and for
\* indices written without a leading zero.)
C4_WholeTokenIsTheIndex ==
    (/\ HasRun
     /\ NoneAtStart(step.text)
     /\ NoLeadingZero(step.text)
     /\ InBounds(step))
        => rendered = Returned(Expand(step.text, step.stepExpressions, 0, TRUE))

\* C5: a token \$<digits> is never substituted: no match of the pattern
\* starts at its dollar sign; when renderText returns, the backslash, the
\* dollar sign and the digits are in the output as they are in the text (the
\* output is the text with only the unescaped one-digit matches replaced);
\* and an error is always due to an unescaped placeholder, never to an
\* escaped token, whatever its index.
C5_EscapedIsLiteral ==
    /\ \A k \in 1..Len(matchAll(step.text)) :
           matchAll(step.text)[k].index \notin EscapedTokens(step.text)
    /\ HasRun =>
        /\ rendered.status = "returned"
             => rendered.value
                  = Expand(step.text, step.stepExpressions, 0, FALSE)
        /\ rendered = Thrown(MissingIndex) => 0 \in Placeholders(step.text)
        /\ rendered = Thrown(OutOfBounds)
             => \E i \in Placeholders(step.text) :
                    DigitVal(Char(step.text, i + 1)) >= Len(step.stepExpressions)
        /\ rendered.status = "thrown"
             => rendered.message \in {MissingIndex, OutOfBounds}

\* renderText has returned for a text that holds an escaped token whose
\* index is out of bounds next to an unescaped placeholder it replaced.
C5_Witness ==
    /\ rendered.status = "returned"
    /\ Placeholders(step.text) # {}
    /\ \E i \in EscapedTokens(step.text) :
           IndexOf(step.text, i) >= Len(step.stepExpressions)

\* C6: for a step whose text holds no unescaped placeholder, renderText
\* returns exactly step.text, whatever stepExpressions is.
C6_IdentityWithoutPlaceholders ==
    (HasRun /\ Placeholders(step.text) = {}) => rendered = Returned(step.text)

\* renderText has returned a text with a dollar sign, an escaped token and
\* no unescaped placeholder, for the empty list of expressions.
C6_Witness ==
    /\ rendered = Returned(step.text)
    /\ Placeholders(step.text) = {}
    /\ EscapedTokens(step.text) # {}
    /\ Len(step.text) = MaxLen
    /\ step.stepExpressions = <<>>

-----------------------------------------------------------------------------
(* The render the specification describes, by recursion over the graph.    *)

\* The steps of brick b, each through renderText, in array order.
OwnSteps(b) ==
    [k \in 1..Len(nodes[b].steps) |-> Leaf(b, renderText(nodes[b].steps[k]).value)]

RECURSIVE Full(_), InOrder(_)

\* The full render of a brick (its parent's, if any, then its own steps) or
\* of a connection (its inputs', then its label), by the type tag.
Full(n) ==
    IF nodes[n].type = "connection"
    THEN InOrder(nodes[n].inputs) \o <<Leaf(n, nodes[n].connectionMethod)>>
    ELSE (IF nodes[n].parent = null THEN <<>> ELSE Full(nodes[n].parent))
         \o OwnSteps(n)

\* The full renders of x1, x2, ..., xn one after the other.
InOrder(inputs) ==
    IF inputs = <<>> THEN <<>> ELSE Full(Head(inputs)) \o InOrder(Tail(inputs))

\* What the component on top of the stack has put into the document.
Segment(document) == SubSeq(document, Top.from + 1, Len(document))

\* No node the tail reaches is reached from itself through parent / inputs.
Acyclic ==
    \A n \in ReachedFrom({tail}) : n \notin ReachedFrom(Links(n))

\* A brick or connection is on the recursion path a second time.
MetAgain ==
    \E i, j \in DOMAIN stack : i < j /\ stack[i].node = stack[j].node

ParentOfTail == nodes[tail].parent

-----------------------------------------------------------------------------
(* Claims about the rendering of the graph.                                *)

\* C7: a connection with inputs [x1..xn] renders the full render of x1, then
\* of x2, ..., then of xn, in array order, each by its own type tag, and only
\* then its connectionMethod label, whatever the order of the inputs is.
C7_InputsThenMethod ==
    [][BrickConnectionViewMethod
         => Segment(out')
              = InOrder(nodes[Top.node].inputs)
                  \o <<Leaf(Top.node, nodes[Top.node].connectionMethod)>>]_vars

\* A recipe is rendered whose tail has a connection of a connection and a
\* brick as its parent, the input built later first.
C7_Witness ==
    /\ phase = "done"
    /\ ParentOfTail # null
    /\ nodes[ParentOfTail].type = "connection"
    /\ Len(nodes[ParentOfTail].inputs) = 2
    /\ nodes[ParentOfTail].inputs[1] > nodes[ParentOfTail].inputs[2]
    /\ nodes[nodes[ParentOfTail].inputs[1]].type = "brick"
    /\ nodes[nodes[ParentOfTail].inputs[2]].type = "connection"

\* C8: a brick renders the complete render of its parent first, when it has
\* one (as a brick or a connection, by the type tag), and then its own steps
\* in array order, each through renderText; with parent = null, only its own
\* steps.  The render of a recipe is the render of recipe.tail.
C8_ParentThenSteps ==
    [][/\ (BrickViewSteps /\ phase' # "failed")
            => Segment(out')
                 = (IF nodes[Top.node].parent = null THEN <<>>
                    ELSE Full(nodes[Top.node].parent)) \o OwnSteps(Top.node)
       /\ (phase' = "done") => out' = Full(tail')]_vars

\* A recipe is rendered whose tail has a brick as its parent: the parent's
\* two steps come first, then the tail's two.
C8_Witness ==
    /\ phase = "done"
    /\ ParentOfTail # null
    /\ nodes[ParentOfTail].type = "brick"
    /\ nodes[ParentOfTail].parent = null
    /\ Len(out) = 4
    /\ out[2].node = ParentOfTail
    /\ out[3].node = tail

C10_StopsWhenMetAgain ==
    [][MetAgain => phase' = "failed"]_vars

\* C10, amended: the rendering from recipe.tail ends (done, or failed on a
\* step that throws) on every graph in which no node the tail reaches is
\* reached from itself; there is no cyclic-graph error, and a rendering that
\* ends as done was of such a graph.
C10_EndsWhenAcyclic ==
    /\ [](phase = "done" => Acyclic)
    /\ []((phase = "render" /\ Acyclic) => <>(phase \in {"done", "failed"}))

\* A recipe of as many bricks and connections as the model builds, with a
\* node reached over two paths, is rendered to the end.
C10_Witness ==
    /\ phase = "done"
    /\ Len(nodes) = MaxNodes
    /\ \E c \in Refs :
           /\ nodes[c].type = "connection"
           /\ Len(nodes[c].inputs) >= 2
           /\ \E x \in Refs : \A i \in DOMAIN nodes[c].inputs :
                  x \in ReachedFrom({nodes[c].inputs[i]})

=============================================================================
